---------------------------- MODULE Spec2Model ----------------------------
(***************************************************************************)
(* A model of src/main.py: the loan-document pipeline that extracts key    *)
(* terms with regular expressions, diffs two versions' terms, runs five    *)
(* keyword checks and composes them in the analyze_docs request handler.   *)
(*                                                                         *)
(* A Python str is a sequence of one-character strings, so that searching, *)
(* lower-casing and trimming are computed character by character.          *)
(***************************************************************************)
EXTENDS Integers, Sequences, FiniteSets, TLC

VARIABLES
    text,        \* the text argument of extract_key_terms / run_esg_checks
    key_terms,   \* what extract_key_terms(text) returned
    esg_checks,  \* what run_esg_checks(text) returned
    v1,          \* compare_terms' first argument (a dict)
    v2,          \* compare_terms' second argument (a dict)
    changes,     \* what compare_terms(v1, v2) returned
    called,      \* the functions that have been applied to the inputs above
    upload,      \* per request: the two uploaded files (doc_v1, doc_v2)
    pc,          \* per request: where analyze_docs stands
    v1_bytes,    \* per request: analyze_docs' local v1_bytes
    v2_bytes,    \* per request: analyze_docs' local v2_bytes
    response     \* per request: the AnalyzeResponse returned

vars == <<text, key_terms, esg_checks, v1, v2, changes, called,
          upload, pc, v1_bytes, v2_bytes, response>>

-----------------------------------------------------------------------------
(* Characters and Python's str methods                                     *)

UpperLetters ==
    <<"A","B","C","D","E","F","G","H","I","J","K","L","M",
      "N","O","P","Q","R","S","T","U","V","W","X","Y","Z">>

LowerLetters ==
    <<"a","b","c","d","e","f","g","h","i","j","k","l","m",
      "n","o","p","q","r","s","t","u","v","w","x","y","z">>

Range(s) == {s[i] : i \in 1..Len(s)}

UpperSet == Range(UpperLetters)

LowerSet == Range(LowerLetters)

Digits == {"0","1","2","3","4","5","6","7","8","9"}

\* str.isspace() / the regex class \s, on the ASCII range
Whitespace == {" ", "\t", "\n", "\r", "\f"}

\* the regex class [A-Z] under re.IGNORECASE
ClassAZ == UpperSet \cup LowerSet

\* the regex class \w
ClassWord == UpperSet \cup LowerSet \cup Digits \cup {"_"}

\* the regex class [0-9,\,\.]
ClassAmount == Digits \cup {",", "."}

\* the regex class [0-9\.]
ClassDecimal == Digits \cup {"."}

ToLowerTable ==
    [c \in UpperSet |->
        LowerLetters[CHOOSE i \in 1..26 : UpperLetters[i] = c]]

\* one character of str.lower()
LowerChar(c) == IF c \in UpperSet THEN ToLowerTable[c] ELSE c

\* str.lower()
lower(s) == [i \in 1..Len(s) |-> LowerChar(s[i])]

RECURSIVE LStripFrom(_, _)
LStripFrom(s, i) ==
    IF i <= Len(s) /\ s[i] \in Whitespace THEN LStripFrom(s, i + 1) ELSE i

RECURSIVE RStripFrom(_, _)
RStripFrom(s, j) ==
    IF j >= 1 /\ s[j] \in Whitespace THEN RStripFrom(s, j - 1) ELSE j

\* str.strip()
strip(s) == SubSeq(s, LStripFrom(s, 1), RStripFrom(s, Len(s)))

\* Python's `sub in s` on strings
IsSubstring(sub, s) ==
    \E i \in 1..(Len(s) - Len(sub) + 1) : SubSeq(s, i, i + Len(sub) - 1) = sub

\* Python values that may be None: an optional str
PyNone == [none |-> TRUE, s |-> <<>>]

PyStr(s) == [none |-> FALSE, s |-> s]

\* str(x)
NONE_STR ==
    <<"N","o","n","e">>

str(x) == IF x.none THEN NONE_STR ELSE x.s

\* Faulty variant of Truthy: only None is falsy (`if x is None`), so an
\* empty string is kept.
Truthy_OnlyNone(x) == ~x.none

\* truthiness of an optional str: None and "" are falsy
Truthy(x) == ~x.none /\ x.s # <<>>

\* Faulty variant of PyOr: the value is formatted without the fallback.
PyOr_NoFallback(x, default) == str(x)

\* `x or default` with a str default
PyOr(x, default) == IF Truthy(x) THEN x.s ELSE default

-----------------------------------------------------------------------------
(* The regular expressions of extract_key_terms, matched as re.search      *)
(* matches them: leftmost start, greedy quantifiers, backtracking.         *)

NOT_DETECTED ==
    <<"N","o","t"," ","d","e","t","e","c","t","e","d">>

LabelFacilityAmount ==
    <<"F","a","c","i","l","i","t","y"," ","A","m","o","u","n","t",":">>

LabelInterestMargin ==
    <<"I","n","t","e","r","e","s","t"," ","M","a","r","g","i","n",":">>

LabelMaturityDate ==
    <<"M","a","t","u","r","i","t","y"," ","D","a","t","e",":">>

LabelBorrower ==
    <<"B","o","r","r","o","w","e","r",":">>

LabelPurpose ==
    <<"P","u","r","p","o","s","e",":">>

PerAnnum ==
    <<"p","e","r"," ","a","n","n","u","m">>

NoMatch == [matched |-> FALSE, group1 |-> <<>>]

Match(g) == [matched |-> TRUE, group1 |-> g]

\* a literal of the pattern matches at position i, ignoring case
LiteralAt(t, i, lit) ==
    /\ i + Len(lit) - 1 <= Len(t)
    /\ \A j \in 1..Len(lit) : LowerChar(t[i + j - 1]) = LowerChar(lit[j])

\* the position after the longest run of characters of class C from i on
RECURSIVE SpanEnd(_, _, _)
SpanEnd(t, i, C) ==
    IF i <= Len(t) /\ t[i] \in C THEN SpanEnd(t, i + 1, C) ELSE i

Min(a, b) == IF a <= b THEN a ELSE b

\* Facility Amount:\s*([A-Z]{3}\s[0-9,\,\.]+) tried at start position i.
\* [A-Z] shares no character with \s, so \s* keeps its longest run.
FacilityAmountAt(t, i) ==
    LET a == i + Len(LabelFacilityAmount)
        b == SpanEnd(t, a, Whitespace)
        e == SpanEnd(t, b + 4, ClassAmount)
    IN  IF /\ LiteralAt(t, i, LabelFacilityAmount)
           /\ b + 3 <= Len(t)
           /\ \A k \in b..(b + 2) : t[k] \in ClassAZ
           /\ t[b + 3] \in Whitespace
           /\ e > b + 4
        THEN Match(SubSeq(t, b, e - 1))
        ELSE NoMatch

\* Interest Margin:\s*([0-9\.]+\s*%\s*per annum) tried at start position i.
\* Adjacent pieces share no character, so every run is the longest one.
InterestMarginAt(t, i) ==
    LET a == i + Len(LabelInterestMargin)
        b == SpanEnd(t, a, Whitespace)
        c == SpanEnd(t, b, ClassDecimal)
        d == SpanEnd(t, c, Whitespace)
        p == SpanEnd(t, d + 1, Whitespace)
    IN  IF /\ LiteralAt(t, i, LabelInterestMargin)
           /\ c > b
           /\ d <= Len(t)
           /\ t[d] = "%"
           /\ LiteralAt(t, p, PerAnnum)
        THEN Match(SubSeq(t, b, p + Len(PerAnnum) - 1))
        ELSE NoMatch

\* Maturity Date:\s*([0-9]{1,2}\s+\w+\s+[0-9]{4}) tried at start position i.
\* [0-9]{1,2} takes two digits when it can; with one digit given back the
\* next character is a digit, which \s+ refuses, so no other split matches.
MaturityDateAt(t, i) ==
    LET a == i + Len(LabelMaturityDate)
        b == SpanEnd(t, a, Whitespace)
        c == Min(SpanEnd(t, b, Digits), b + 2)
        d == SpanEnd(t, c, Whitespace)
        w == SpanEnd(t, d, ClassWord)
        y == SpanEnd(t, w, Whitespace)
    IN  IF /\ LiteralAt(t, i, LabelMaturityDate)
           /\ c > b
           /\ d > c
           /\ w > d
           /\ y > w
           /\ y + 3 <= Len(t)
           /\ \A k \in y..(y + 3) : t[k] \in Digits
        THEN Match(SubSeq(t, b, y + 3))
        ELSE NoMatch

\* \s*(.+) after a label that ends before position a: \s* first takes its
\* longest run and gives characters back one at a time until `.` (any
\* character but "\n") finds one to match; .+ then runs to the end of that line.
RECURSIVE RestAfterSpaces(_, _, _)
RestAfterSpaces(t, a, p) ==
    IF p < a THEN NoMatch
    ELSE IF p <= Len(t) /\ t[p] # "\n"
         THEN Match(SubSeq(t, p, SpanEnd(t, p, Range(t) \ {"\n"}) - 1))
         ELSE RestAfterSpaces(t, a, p - 1)

\* <label>\s*(.+) tried at start position i
LabelRestAt(t, i, label) ==
    LET a == i + Len(label)
    IN  IF LiteralAt(t, i, label)
        THEN RestAfterSpaces(t, a, SpanEnd(t, a, Whitespace))
        ELSE NoMatch

\* the five patterns, named by the field they extract
PatternAt(pattern, t, i) ==
    CASE pattern = "facility_amount" -> FacilityAmountAt(t, i)
      [] pattern = "margin"          -> InterestMarginAt(t, i)
      [] pattern = "maturity_date"   -> MaturityDateAt(t, i)
      [] pattern = "borrower"        -> LabelRestAt(t, i, LabelBorrower)
      [] pattern = "purpose"         -> LabelRestAt(t, i, LabelPurpose)

\* re.search(pattern, text, re.IGNORECASE): the match at the leftmost start
re_search(pattern, t) ==
    LET starts == {i \in 1..Len(t) : PatternAt(pattern, t, i).matched}
    IN  IF starts = {} THEN NoMatch
        ELSE PatternAt(pattern, t,
                       CHOOSE i \in starts : \A j \in starts : i <= j)

find_first(pattern, t) ==
    LET match == re_search(pattern, t)
    IN  IF match.matched THEN PyStr(strip(match.group1)) ELSE PyNone

\* A dict: its keys in insertion order and the value of each key
Dict(keys, val) == [keys |-> keys, val |-> val]

FieldOrder == <<"facility_amount", "margin", "maturity_date", "borrower", "purpose">>

extract_key_terms(t) ==
    LET facility_amount == find_first("facility_amount", t)
        margin          == find_first("margin", t)
        maturity        == find_first("maturity_date", t)
        borrower        == find_first("borrower", t)
        purpose         == find_first("purpose", t)
    IN  Dict(FieldOrder,
             [facility_amount |-> PyOr(facility_amount, NOT_DETECTED),
              margin          |-> PyOr(margin, NOT_DETECTED),
              maturity_date   |-> PyOr(maturity, NOT_DETECTED),
              borrower        |-> PyOr(borrower, NOT_DETECTED),
              purpose         |-> PyOr(purpose, NOT_DETECTED)])

-----------------------------------------------------------------------------
(* run_esg_checks and its keyword phrases                                  *)

Kw_use_of_proceeds ==
    <<"u","s","e"," ","o","f"," ","p","r","o","c","e","e","d","s">>

Kw_proceeds_of_the_facility ==
    <<"p","r","o","c","e","e","d","s"," ","o","f"," ","t","h","e"," ","f","a","c","i","l","i","t","y">>

Kw_shall_be_applied_towards ==
    <<"s","h","a","l","l"," ","b","e"," ","a","p","p","l","i","e","d"," ","t","o","w","a","r","d","s">>

Kw_green_project ==
    <<"g","r","e","e","n"," ","p","r","o","j","e","c","t">>

Kw_sustainability_objective ==
    <<"s","u","s","t","a","i","n","a","b","i","l","i","t","y"," ","o","b","j","e","c","t","i","v","e">>

Kw_environmental_objective ==
    <<"e","n","v","i","r","o","n","m","e","n","t","a","l"," ","o","b","j","e","c","t","i","v","e">>

Kw_renewable_energy ==
    <<"r","e","n","e","w","a","b","l","e"," ","e","n","e","r","g","y">>

Kw_energy_efficiency ==
    <<"e","n","e","r","g","y"," ","e","f","f","i","c","i","e","n","c","y">>

Kw_climate ==
    <<"c","l","i","m","a","t","e">>

Kw_key_performance_indicator ==
    <<"k","e","y"," ","p","e","r","f","o","r","m","a","n","c","e"," ","i","n","d","i","c","a","t","o","r">>

Kw_kpi ==
    <<"k","p","i">>

Kw_sustainability_performance_target ==
    <<"s","u","s","t","a","i","n","a","b","i","l","i","t","y"," ","p","e","r","f","o","r","m","a","n","c","e"," ","t","a","r","g","e","t">>

Kw_performance_target ==
    <<"p","e","r","f","o","r","m","a","n","c","e"," ","t","a","r","g","e","t">>

Kw_reporting ==
    <<"r","e","p","o","r","t","i","n","g">>

Kw_annual_report ==
    <<"a","n","n","u","a","l"," ","r","e","p","o","r","t">>

Kw_sustainability_report ==
    <<"s","u","s","t","a","i","n","a","b","i","l","i","t","y"," ","r","e","p","o","r","t">>

Kw_periodic_report ==
    <<"p","e","r","i","o","d","i","c"," ","r","e","p","o","r","t">>

Kw_second_party_opinion ==
    <<"s","e","c","o","n","d"," ","p","a","r","t","y"," ","o","p","i","n","i","o","n">>

Kw_external_review ==
    <<"e","x","t","e","r","n","a","l"," ","r","e","v","i","e","w">>

Kw_external_verifier ==
    <<"e","x","t","e","r","n","a","l"," ","v","e","r","i","f","i","e","r">>

Kw_assurance_provider ==
    <<"a","s","s","u","r","a","n","c","e"," ","p","r","o","v","i","d","e","r">>

\* Faulty variant of contains_any: the text is not lower-cased.
contains_any_CaseSensitive(t, keywords) ==
    \E n \in 1..Len(keywords) : IsSubstring(lower(keywords[n]), t)

contains_any(t, keywords) ==
    LET lowered == lower(t)
    IN  \E n \in 1..Len(keywords) : IsSubstring(lower(keywords[n]), lowered)

ESGCheckResult(rule_name, passed, comment) ==
    [rule_name |-> rule_name, passed |-> passed, comment |-> comment]

\* Faulty variant of AppendCheck: only a passed check is reported.
AppendCheck_OnlyPassed(checks, result) ==
    IF result.passed THEN Append(checks, result) ELSE checks

\* checks.append(result)
AppendCheck(checks, result) == Append(checks, result)

run_esg_checks(t) ==
    LET checks0 == <<>>
        \* 1. Use of proceeds clearly defined
        checks1 == AppendCheck(checks0, ESGCheckResult(
            "Use of proceeds clearly defined",
            contains_any(t, <<Kw_use_of_proceeds, Kw_proceeds_of_the_facility,
                              Kw_shall_be_applied_towards>>),
            "Green loans should clearly define how proceeds will be used."))
        \* 2. Environmental / sustainability objectives described
        checks2 == AppendCheck(checks1, ESGCheckResult(
            "Environmental / sustainability objectives described",
            contains_any(t, <<Kw_green_project, Kw_sustainability_objective,
                              Kw_environmental_objective, Kw_renewable_energy,
                              Kw_energy_efficiency, Kw_climate>>),
            "Looks for language around green or sustainability objectives."))
        \* 3. KPIs or performance targets
        checks3 == AppendCheck(checks2, ESGCheckResult(
            "KPIs or performance targets included",
            contains_any(t, <<Kw_key_performance_indicator, Kw_kpi,
                              Kw_sustainability_performance_target,
                              Kw_performance_target>>),
            "Searches for sustainability-linked KPIs or performance targets."))
        \* 4. Reporting obligations
        checks4 == AppendCheck(checks3, ESGCheckResult(
            "Ongoing reporting obligations present",
            contains_any(t, <<Kw_reporting, Kw_annual_report,
                              Kw_sustainability_report, Kw_periodic_report>>),
            "Checks if the borrower is required to report on performance."))
        \* 5. External review / verification
        checks5 == AppendCheck(checks4, ESGCheckResult(
            "External review / verification mentioned",
            contains_any(t, <<Kw_second_party_opinion, Kw_external_review,
                              Kw_external_verifier, Kw_assurance_provider>>),
            "Looks for external ESG review or verification requirements."))
    IN  checks5

-----------------------------------------------------------------------------
(* compare_terms                                                           *)

\* Faulty variant of DictGet: a missing key reads as "Not detected".
DictGet_DefaultNotDetected(d, key) ==
    IF key \in DOMAIN d.val THEN PyStr(d.val[key]) ELSE PyStr(NOT_DETECTED)

\* dict.get(key): the value, or None for a key the dict does not hold
DictGet(d, key) ==
    IF key \in DOMAIN d.val THEN PyStr(d.val[key]) ELSE PyNone

FieldChange(field, from_value, to_value, impact) ==
    [field |-> field, from_value |-> from_value,
     to_value |-> to_value, impact |-> impact]

\* the if/elif chain that replaces the default impact message
ImpactOf(field) ==
    IF field = "margin"
        THEN "Economic impact: margin changed (cost of debt)."
    ELSE IF field = "facility_amount"
        THEN "Economic impact: facility size changed."
    ELSE IF field = "maturity_date"
        THEN "Term/risk impact: maturity changed."
    ELSE IF field = "borrower"
        THEN "Counterparty details changed."
    ELSE IF field = "purpose"
        THEN "Use of proceeds changed."
    ELSE "Change detected"

\* Faulty variant of IterKeys: the loop runs over the revised dict's keys.
IterKeys_Revised(a, b) == b.keys

\* the keys compare_terms iterates over
IterKeys(a, b) == a.keys

\* Faulty variant of SameValue: a value that became "Not detected" is
\* not reported.
SameValue_IgnoreLost(old_val, new_val) ==
    old_val = new_val \/ new_val = PyStr(NOT_DETECTED)

\* old_val == new_val
SameValue(old_val, new_val) == old_val = new_val

\* the for loop from its i-th iteration on, with the changes appended so far
RECURSIVE CompareLoop(_, _, _, _, _)
CompareLoop(keys, a, b, i, acc) ==
    IF i > Len(keys) THEN acc
    ELSE LET field   == keys[i]
             old_val == DictGet(a, field)
             new_val == DictGet(b, field)
         IN  IF SameValue(old_val, new_val)
             THEN CompareLoop(keys, a, b, i + 1, acc)
             ELSE CompareLoop(keys, a, b, i + 1,
                      Append(acc, FieldChange(field, str(old_val),
                                              str(new_val), ImpactOf(field))))

compare_terms(a, b) == CompareLoop(IterKeys(a, b), a, b, 1, <<>>)

-----------------------------------------------------------------------------
(* analyze_docs: the request handler                                       *)

\* "\n".join(parts)
RECURSIVE JoinLines(_)
JoinLines(parts) ==
    IF Len(parts) = 0 THEN <<>>
    ELSE IF Len(parts) = 1 THEN parts[1]
    ELSE parts[1] \o <<"\n">> \o JoinLines(Tail(parts))

\* A PDF is the sequence of what page.extract_text() gives for its pages:
\* a str, or None for a page without text.
extract_text_from_pdf(file_bytes) ==
    JoinLines([n \in 1..Len(file_bytes) |-> PyOr(file_bytes[n], <<>>)])

\* Faulty variant of EsgInput: the checks run on the baseline text.
EsgInput_Baseline(text_v1, text_v2) == text_v1

\* the text run_esg_checks is given
EsgInput(text_v1, text_v2) == text_v2

AnalyzeResponse(k1, k2, ch, esg) ==
    [key_terms_v1 |-> k1, key_terms_v2 |-> k2, changes |-> ch, esg_checks |-> esg]

\* lines 259-275: everything analyze_docs does after its two awaits
AnalyzeBody(b1, b2) ==
    LET text_v1      == extract_text_from_pdf(b1)
        text_v2      == extract_text_from_pdf(b2)
        key_terms_v1 == extract_key_terms(text_v1)
        key_terms_v2 == extract_key_terms(text_v2)
    IN  AnalyzeResponse(key_terms_v1, key_terms_v2,
                        compare_terms(key_terms_v1, key_terms_v2),
                        run_esg_checks(EsgInput(text_v1, text_v2)))

-----------------------------------------------------------------------------
(* Inputs: texts are concatenations of a few fragments                     *)

\* how many fragments a text given to extract_key_terms is made of
MaxChunks == 3

\* how many fragments a text given only to run_esg_checks is made of
MaxPhrases == 2

\* how many keys a dict given to compare_terms holds
MaxFields == 2

\* how many analyze_docs requests are in flight at once
NumRequests == 2

FragPurposeLower ==
    <<"p","u","r","p","o","s","e",":">>

FragAcme ==
    <<"A","c","m","e"," ","L","t","d">>

FragAmount ==
    <<"E","U","R"," ","1",",","5","0","0",".","5">>

FragMargin ==
    <<"2",".","5"," ","%"," ","p","e","r"," ","a","n","n","u","m">>

FragMarginRevised ==
    <<"3","%"," ","P","e","r"," ","A","n","n","u","m">>

FragDate ==
    <<"3","1"," ","M","a","r","c","h"," ","2","0","2","8">>

FragKpiUpper ==
    <<"K","P","I">>

FragAnnualReportMixed ==
    <<"A","n","n","u","a","l"," ","R","e","p","o","r","t">>

ExtractFragments ==
    { LabelFacilityAmount, LabelInterestMargin, LabelMaturityDate,
      LabelBorrower, FragPurposeLower,
      FragAcme, FragAmount, FragMargin, FragDate,
      <<" ">>, <<"\n">> }

EsgFragments ==
    { Kw_use_of_proceeds, Kw_proceeds_of_the_facility,
      Kw_shall_be_applied_towards,
      Kw_green_project, Kw_sustainability_objective,
      Kw_environmental_objective, Kw_renewable_energy,
      Kw_energy_efficiency, Kw_climate,
      Kw_key_performance_indicator, Kw_kpi,
      Kw_sustainability_performance_target, Kw_performance_target,
      Kw_reporting, Kw_annual_report, Kw_sustainability_report,
      Kw_periodic_report,
      Kw_second_party_opinion, Kw_external_review, Kw_external_verifier,
      Kw_assurance_provider,
      FragKpiUpper, FragAnnualReportMixed, <<"x">>, <<" ">> }

\* the concatenations of at most n fragments of F
RECURSIVE TextsOf(_, _)
TextsOf(F, n) ==
    IF n = 0 THEN {<<>>}
    ELSE LET shorter == TextsOf(F, n - 1)
         IN  shorter \cup {t \o f : t \in shorter, f \in F}

Texts == TextsOf(ExtractFragments, MaxChunks) \cup TextsOf(EsgFragments, MaxPhrases)

\* the field names compare_terms knows, and one it does not
FieldNames ==
    {"facility_amount", "margin", "maturity_date", "borrower", "purpose",
     "covenant"}

ValueA ==
    <<"A">>

ValueB ==
    <<"B">>

\* the sequences of at most n distinct field names
RECURSIVE KeyOrders(_)
KeyOrders(n) ==
    IF n = 0 THEN {<<>>}
    ELSE LET shorter == KeyOrders(n - 1)
         IN  shorter \cup
             UNION {{Append(k, f) : f \in FieldNames \ Range(k)} : k \in shorter}

Reverse(k) == [i \in 1..Len(k) |-> k[Len(k) + 1 - i]]

\* the keys of order k that set S holds, in k's order
RECURSIVE Restrict(_, _)
Restrict(k, S) ==
    IF k = <<>> THEN <<>>
    ELSE IF Head(k) \in S THEN <<Head(k)>> \o Restrict(Tail(k), S)
    ELSE Restrict(Tail(k), S)

\* the dicts with keys in order k and values from V
DictsOver(k, V) == {Dict(k, val) : val \in [Range(k) -> V]}

BaselineDicts ==
    UNION {DictsOver(k, {NOT_DETECTED, ValueA}) : k \in KeyOrders(MaxFields)}

\* the revised dicts tried against baseline a: any subset of a's keys, in
\* a's order or the reverse, with any values
RevisedDicts(a) ==
    UNION {DictsOver(k, {NOT_DETECTED, ValueA, ValueB}) :
              k \in UNION {{Restrict(a.keys, S), Reverse(Restrict(a.keys, S))} :
                              S \in SUBSET Range(a.keys)}}

\* uploaded PDFs, each the sequence of its pages' extracted text
PdfBaseline ==
    << PyStr(LabelBorrower \o <<" ">> \o FragAcme),
       PyStr(LabelInterestMargin \o <<" ">> \o FragMargin) >>

PdfRevised ==
    << PyStr(LabelBorrower \o <<" ">> \o FragAcme),
       PyNone,
       PyStr(LabelInterestMargin \o <<" ">> \o FragMarginRevised
             \o <<"\n">> \o Kw_annual_report \o <<" ">> \o Kw_kpi) >>

PdfNoPages == <<>>

Pdfs == {PdfBaseline, PdfRevised, PdfNoPages}

Requests == 1..NumRequests

EmptyDict == Dict(<<>>, <<>>)

NoResponse == AnalyzeResponse(EmptyDict, EmptyDict, <<>>, <<>>)

-----------------------------------------------------------------------------
(* The functions applied to their inputs                                   *)

PipelineIdle ==
    /\ upload = <<>>
    /\ pc = <<>>
    /\ v1_bytes = <<>>
    /\ v2_bytes = <<>>
    /\ response = <<>>

TextIdle ==
    /\ text = <<>>
    /\ key_terms = EmptyDict
    /\ esg_checks = <<>>

DiffIdle ==
    /\ v1 = EmptyDict
    /\ v2 = EmptyDict
    /\ changes = <<>>

InitText ==
    /\ text \in Texts
    /\ key_terms = EmptyDict
    /\ esg_checks = <<>>
    /\ called = {}
    /\ DiffIdle
    /\ PipelineIdle

ExtractKeyTerms ==
    /\ "extract_key_terms" \notin called
    /\ key_terms' = extract_key_terms(text)
    /\ called' = called \cup {"extract_key_terms"}
    /\ UNCHANGED <<text, esg_checks, v1, v2, changes,
                   upload, pc, v1_bytes, v2_bytes, response>>

RunEsgChecks ==
    /\ "run_esg_checks" \notin called
    /\ esg_checks' = run_esg_checks(text)
    /\ called' = called \cup {"run_esg_checks"}
    /\ UNCHANGED <<text, key_terms, v1, v2, changes,
                   upload, pc, v1_bytes, v2_bytes, response>>

NextText == ExtractKeyTerms \/ RunEsgChecks

SpecText == InitText /\ [][NextText]_vars

InitDiff ==
    /\ v1 \in BaselineDicts
    /\ v2 \in RevisedDicts(v1)
    /\ changes = <<>>
    /\ called = {}
    /\ TextIdle
    /\ PipelineIdle

CompareTerms ==
    /\ "compare_terms" \notin called
    /\ changes' = compare_terms(v1, v2)
    /\ called' = called \cup {"compare_terms"}
    /\ UNCHANGED <<text, key_terms, esg_checks, v1, v2,
                   upload, pc, v1_bytes, v2_bytes, response>>

NextDiff == CompareTerms

SpecDiff == InitDiff /\ [][NextDiff]_vars

-----------------------------------------------------------------------------
(* Concurrent analyze_docs requests on one event loop: a request runs      *)
(* without interruption between two awaits.                                *)

Init ==
    /\ upload \in [Requests -> [doc_v1 : Pdfs, doc_v2 : Pdfs]]
    /\ pc = [r \in Requests |-> "await_v1"]
    /\ v1_bytes = [r \in Requests |-> <<>>]
    /\ v2_bytes = [r \in Requests |-> <<>>]
    /\ response = [r \in Requests |-> NoResponse]
    /\ called = {}
    /\ TextIdle
    /\ DiffIdle

\* Faulty variant of StoreRead: the bytes go to one buffer all requests
\* share.
StoreRead_Shared(buffer, r, data) == [q \in DOMAIN buffer |-> data]

\* what `await doc.read()` stores for request r
StoreRead(buffer, r, data) == [buffer EXCEPT ![r] = data]

\* v1_bytes = await doc_v1.read()
ReadV1(r) ==
    /\ pc[r] = "await_v1"
    /\ v1_bytes' = StoreRead(v1_bytes, r, upload[r].doc_v1)
    /\ pc' = [pc EXCEPT ![r] = "await_v2"]
    /\ UNCHANGED <<text, key_terms, esg_checks, v1, v2, changes, called,
                   upload, v2_bytes, response>>

\* v2_bytes = await doc_v2.read()
ReadV2(r) ==
    /\ pc[r] = "await_v2"
    /\ v2_bytes' = StoreRead(v2_bytes, r, upload[r].doc_v2)
    /\ pc' = [pc EXCEPT ![r] = "analyze"]
    /\ UNCHANGED <<text, key_terms, esg_checks, v1, v2, changes, called,
                   upload, v1_bytes, response>>

\* the rest of analyze_docs, up to its return
Analyze(r) ==
    /\ pc[r] = "analyze"
    /\ response' = [response EXCEPT ![r] = AnalyzeBody(v1_bytes[r], v2_bytes[r])]
    /\ pc' = [pc EXCEPT ![r] = "done"]
    /\ UNCHANGED <<text, key_terms, esg_checks, v1, v2, changes, called,
                   upload, v1_bytes, v2_bytes>>

Next == \E r \in Requests : ReadV1(r) \/ ReadV2(r) \/ Analyze(r)

Spec == Init /\ [][Next]_vars

-----------------------------------------------------------------------------
(* Vocabulary of the properties                                            *)

Compared == "compare_terms" \in called

Extracted == "extract_key_terms" \in called

Checked == "run_esg_checks" \in called

Fields(d) == Range(d.keys)

\* the indices of the FieldChanges of seq that are about field f
ChangesOf(seq, f) == {i \in 1..Len(seq) : seq[i].field = f}

\* the position of field f in key order k
PositionIn(k, f) == CHOOSE i \in 1..Len(k) : k[i] = f

LetterIndex ==
    [c \in UpperSet \cup LowerSet |->
        CHOOSE n \in 1..26 : c \in {UpperLetters[n], LowerLetters[n]}]

\* two characters are the same up to letter case
SameLetter(a, b) ==
    \/ a = b
    \/ /\ a \in DOMAIN LetterIndex
       /\ b \in DOMAIN LetterIndex
       /\ LetterIndex[a] = LetterIndex[b]

\* phrase stands at position i of t, letter case ignored
OccursAt(phrase, t, i) ==
    /\ i + Len(phrase) - 1 <= Len(t)
    /\ \A j \in 1..Len(phrase) : SameLetter(t[i + j - 1], phrase[j])

\* phrase occurs somewhere in t, letter case ignored, at any offset
OccursIgnoringCase(phrase, t) == \E i \in 1..Len(t) : OccursAt(phrase, t, i)

\* the trigger phrases of the five rules, in rule order
RuleTriggers ==
    << {Kw_use_of_proceeds, Kw_proceeds_of_the_facility,
        Kw_shall_be_applied_towards},
       {Kw_green_project, Kw_sustainability_objective,
        Kw_environmental_objective, Kw_renewable_energy,
        Kw_energy_efficiency, Kw_climate},
       {Kw_key_performance_indicator, Kw_kpi,
        Kw_sustainability_performance_target, Kw_performance_target},
       {Kw_reporting, Kw_annual_report, Kw_sustainability_report,
        Kw_periodic_report},
       {Kw_second_party_opinion, Kw_external_review, Kw_external_verifier,
        Kw_assurance_provider} >>

RuleNames ==
    << "Use of proceeds clearly defined",
       "Environmental / sustainability objectives described",
       "KPIs or performance targets included",
       "Ongoing reporting obligations present",
       "External review / verification mentioned" >>

RuleComments ==
    << "Green loans should clearly define how proceeds will be used.",
       "Looks for language around green or sustainability objectives.",
       "Searches for sustainability-linked KPIs or performance targets.",
       "Checks if the borrower is required to report on performance.",
       "Looks for external ESG review or verification requirements." >>

FieldLabels ==
    {LabelFacilityAmount, LabelInterestMargin, LabelMaturityDate,
     LabelBorrower, LabelPurpose}

ExtractedFieldNames ==
    {"facility_amount", "margin", "maturity_date", "borrower", "purpose"}

\* the impact message of each field name
ImpactTable(f) ==
    CASE f = "margin"          -> "Economic impact: margin changed (cost of debt)."
      [] f = "facility_amount" -> "Economic impact: facility size changed."
      [] f = "maturity_date"   -> "Term/risk impact: maturity changed."
      [] f = "borrower"        -> "Counterparty details changed."
      [] f = "purpose"         -> "Use of proceeds changed."
      [] OTHER                 -> "Change detected"

Passed(seq) == [i \in 1..Len(seq) |-> seq[i].passed]

-----------------------------------------------------------------------------
(* Properties of compare_terms                                             *)

\* C1: over the same field set, every field whose baseline and revised
\* values differ is in exactly one FieldChange, no field with equal values
\* (two "Not detected" included) is in any, and equal mappings give the
\* empty sequence.
C1_ChangeCompleteness ==
    (Compared /\ Fields(v1) = Fields(v2)) =>
        /\ \A f \in Fields(v1) :
              Cardinality(ChangesOf(changes, f)) =
                  IF v1.val[f] # v2.val[f] THEN 1 ELSE 0
        /\ \A i \in 1..Len(changes) : changes[i].field \in Fields(v1)
        /\ (v1.val = v2.val => changes = <<>>)

\* C1's case: one field changed, another "Not detected" on both sides
C1_Witness ==
    /\ Compared
    /\ Fields(v1) = Fields(v2)
    /\ Len(changes) = 1
    /\ \E f \in Fields(v1) :
          v1.val[f] = NOT_DETECTED /\ v2.val[f] = NOT_DETECTED

\* C7 as claimed: a field missing from the revised mapping counts as
\* "Not detected": no FieldChange when the baseline value is "Not
\* detected", and to_value = "Not detected" otherwise.
C7_MissingIsNotDetected ==
    Compared =>
        \A f \in Fields(v1) \ Fields(v2) :
            IF v1.val[f] = NOT_DETECTED
            THEN ChangesOf(changes, f) = {}
            ELSE /\ ChangesOf(changes, f) # {}
                 /\ \A i \in ChangesOf(changes, f) :
                       changes[i].to_value = NOT_DETECTED

\* C7 amended: a field missing from the revised mapping has the revised
\* value None, which equals no string: exactly one FieldChange is emitted
\* for it whatever the baseline value, with from_value the baseline value
\* and to_value "None".
C7_MissingIsNone ==
    Compared =>
        \A f \in Fields(v1) \ Fields(v2) :
            /\ Cardinality(ChangesOf(changes, f)) = 1
            /\ \A i \in ChangesOf(changes, f) :
                  /\ changes[i].from_value = v1.val[f]
                  /\ changes[i].to_value = NONE_STR

\* C7's case: the baseline holds "Not detected" for a field the revised
\* mapping lacks, and the field is reported
C7_Witness ==
    /\ Compared
    /\ \E f \in Fields(v1) \ Fields(v2) :
          /\ v1.val[f] = NOT_DETECTED
          /\ ChangesOf(changes, f) # {}

\* C9: the FieldChanges follow the baseline's key order, each carries the
\* baseline value and the revised value of its field, and its impact is
\* the table's message for the field name, "Change detected" for a name
\* the table does not list.
C9_OrderAndContent ==
    Compared =>
        /\ \A i, j \in 1..Len(changes) :
              i < j => PositionIn(v1.keys, changes[i].field)
                           < PositionIn(v1.keys, changes[j].field)
        /\ \A i \in 1..Len(changes) :
              LET f == changes[i].field
              IN  /\ f \in Fields(v1)
                  /\ changes[i].from_value = v1.val[f]
                  /\ f \in Fields(v2) => changes[i].to_value = v2.val[f]
                  /\ changes[i].impact = ImpactTable(f)

\* C9's case: two changes, the revised mapping in the opposite key order,
\* one of the fields unknown to the table
C9_Witness ==
    /\ Compared
    /\ Len(changes) = 2
    /\ Len(v2.keys) = 2
    /\ v2.keys = Reverse(v1.keys)
    /\ \E i \in 1..2 : changes[i].impact = "Change detected"
    /\ \E i \in 1..2 : changes[i].impact = ImpactTable("margin")

-----------------------------------------------------------------------------
(* Properties of run_esg_checks and extract_key_terms                      *)

\* C2: each rule passes exactly when one of its trigger phrases occurs in
\* the text, letter case ignored, anywhere (inside a longer word too).
C2_PassedIffTrigger ==
    Checked =>
        /\ Len(esg_checks) = Len(RuleTriggers)
        /\ \A n \in 1..Len(RuleTriggers) :
              esg_checks[n].passed <=>
                  \E phrase \in RuleTriggers[n] : OccursIgnoringCase(phrase, text)

\* C2's case: "annual report" and "kpi", not in lower case, and no other
\* trigger: rules 3 and 4 pass, rules 1, 2 and 5 fail
C2_Witness ==
    /\ Checked
    /\ text # lower(text)
    /\ OccursIgnoringCase(Kw_kpi, text)
    /\ OccursIgnoringCase(Kw_annual_report, text)
    /\ ~IsSubstring(Kw_kpi, text)
    /\ Passed(esg_checks) = <<FALSE, FALSE, TRUE, TRUE, FALSE>>

\* C3: whatever the text, there are exactly five results, with the rule
\* names and comments of the five rules in their fixed order.
C3_FiveFixedChecks ==
    Checked =>
        /\ Len(esg_checks) = 5
        /\ \A n \in 1..5 :
              /\ esg_checks[n].rule_name = RuleNames[n]
              /\ esg_checks[n].comment = RuleComments[n]

\* C3's case: a text on which some rules pass and others fail
C3_Witness ==
    /\ Checked
    /\ Len(esg_checks) = 5
    /\ \E n \in 1..5 : esg_checks[n].passed
    /\ \E n \in 1..5 : ~esg_checks[n].passed

NoLabelIn(t) == \A label \in FieldLabels : ~OccursIgnoringCase(label, t)

NoTriggerIn(t) ==
    \A n \in 1..Len(RuleTriggers) :
        \A phrase \in RuleTriggers[n] : ~OccursIgnoringCase(phrase, t)

\* C4: a text without any of the five labels gives "Not detected" for all
\* five fields, and a text without any trigger phrase gives five failed
\* checks; the empty text is one such text.
C4_Degradation ==
    /\ (Extracted /\ NoLabelIn(text)) =>
          /\ DOMAIN key_terms.val = ExtractedFieldNames
          /\ \A f \in ExtractedFieldNames : key_terms.val[f] = NOT_DETECTED
    /\ (Checked /\ NoTriggerIn(text)) =>
          Passed(esg_checks) = <<FALSE, FALSE, FALSE, FALSE, FALSE>>

\* C4's case: a text that is not empty, holds an amount but no label and no
\* trigger phrase, after both functions ran
C4_Witness ==
    /\ Extracted
    /\ Checked
    /\ IsSubstring(FragAmount, text)
    /\ NoLabelIn(text)
    /\ NoTriggerIn(text)
    /\ key_terms.val["facility_amount"] = NOT_DETECTED
    /\ \A n \in 1..5 : ~esg_checks[n].passed

\* C5: the result has exactly the five keys, and every value is "Not
\* detected" or a string that is not empty and neither starts nor ends
\* with whitespace.
C5_ValueInvariant ==
    Extracted =>
        /\ Len(key_terms.keys) = 5
        /\ Fields(key_terms) = ExtractedFieldNames
        /\ DOMAIN key_terms.val = ExtractedFieldNames
        /\ \A f \in ExtractedFieldNames :
              LET value == key_terms.val[f]
              IN  \/ value = NOT_DETECTED
                  \/ /\ Len(value) > 0
                     /\ value[1] \notin Whitespace
                     /\ value[Len(value)] \notin Whitespace

\* C5's case: the borrower pattern matches and its group is empty once
\* trimmed, while another field is detected
C5_Witness ==
    /\ Extracted
    /\ re_search("borrower", text).matched
    /\ strip(re_search("borrower", text).group1) = <<>>
    /\ key_terms.val["borrower"] = NOT_DETECTED
    /\ key_terms.val["purpose"] # NOT_DETECTED

\* the first position at which label occurs in t, letter case ignored
FirstLabel(label, t) ==
    CHOOSE i \in 1..Len(t) :
        /\ OccursAt(label, t, i)
        /\ \A k \in 1..(i - 1) : ~OccursAt(label, t, k)

\* what follows the first occurrence of label on its own line
RestOfLabelLine(label, t) ==
    LET from == FirstLabel(label, t) + Len(label)
        to   == CHOOSE e \in from..(Len(t) + 1) :
                    /\ e = Len(t) + 1 \/ t[e] = "\n"
                    /\ \A k \in from..(e - 1) : t[k] # "\n"
    IN  SubSeq(t, from, to - 1)

\* C8 as claimed: borrower and purpose are the trimmed rest of the line of
\* their first label, never text of a following line, and "Not detected"
\* when only whitespace follows the label on its line.
C8_LineBounded ==
    Extracted =>
        \A f \in {"borrower", "purpose"} :
            LET label == IF f = "borrower" THEN LabelBorrower ELSE LabelPurpose
            IN  OccursIgnoringCase(label, text) =>
                    LET rest == strip(RestOfLabelLine(label, text))
                    IN  key_terms.val[f] =
                            IF rest = <<>> THEN NOT_DETECTED ELSE rest

-----------------------------------------------------------------------------
(* Properties of analyze_docs                                              *)

Done(r) == pc[r] = "done"

TextOf(pdf) == extract_text_from_pdf(pdf)

\* C6: the response is the composition of the three functions, with the
\* checks run on the revised text; two requests with the same revised
\* document get the same esg_checks and key_terms_v2 whatever their
\* baseline documents.
C6_Composition ==
    /\ \A r \in Requests :
          Done(r) =>
              /\ response[r].key_terms_v1 = extract_key_terms(TextOf(upload[r].doc_v1))
              /\ response[r].key_terms_v2 = extract_key_terms(TextOf(upload[r].doc_v2))
              /\ response[r].changes =
                    compare_terms(response[r].key_terms_v1, response[r].key_terms_v2)
              /\ response[r].esg_checks = run_esg_checks(TextOf(upload[r].doc_v2))
    /\ \A r, q \in Requests :
          (Done(r) /\ Done(q) /\ upload[r].doc_v2 = upload[q].doc_v2) =>
              /\ response[r].esg_checks = response[q].esg_checks
              /\ response[r].key_terms_v2 = response[q].key_terms_v2

\* C6's case: two finished requests with the same revised document and
\* baselines whose terms and checks differ
C6_Witness ==
    \E r, q \in Requests :
        /\ Done(r) /\ Done(q)
        /\ upload[r].doc_v2 = upload[q].doc_v2
        /\ response[r].key_terms_v1 # response[q].key_terms_v1
        /\ run_esg_checks(TextOf(upload[r].doc_v1))
               # run_esg_checks(TextOf(upload[q].doc_v1))
        /\ response[r].esg_checks = response[q].esg_checks
        /\ \E n \in 1..5 : response[r].esg_checks[n].passed

\* a request that takes no step keeps its locals and its response
OthersUntouched ==
    \A r \in Requests :
        pc'[r] = pc[r] =>
            /\ v1_bytes'[r] = v1_bytes[r]
            /\ v2_bytes'[r] = v2_bytes[r]
            /\ response'[r] = response[r]

\* what each request holds is its own, whatever the others did meanwhile
OwnResult ==
    \A r \in Requests :
        /\ pc[r] \in {"await_v2", "analyze", "done"} =>
              v1_bytes[r] = upload[r].doc_v1
        /\ pc[r] \in {"analyze", "done"} => v2_bytes[r] = upload[r].doc_v2
        /\ Done(r) =>
              response[r] = AnalyzeBody(upload[r].doc_v1, upload[r].doc_v2)
        /\ \A q \in Requests :
              (Done(r) /\ Done(q) /\ upload[r] = upload[q]) =>
                  response[r] = response[q]

\* C10: however the requests interleave at their awaits, each returns what
\* it returns alone on its own two documents, a step of one request leaves
\* the others' state as it was, and equal inputs give equal results.
C10_Independence == []OwnResult /\ [][OthersUntouched]_vars

\* C10's case: one request finished while another, on other documents, is
\* suspended between its two reads
C10_Witness ==
    \E r, q \in Requests :
        /\ Done(r)
        /\ pc[q] = "await_v2"
        /\ upload[q].doc_v1 # upload[r].doc_v1
        /\ upload[q].doc_v2 # upload[r].doc_v2
        /\ response[r].changes # <<>>

=============================================================================
